---- MODULE Spec2Model ----
(***************************************************************************)
(* A model of OldQueue (src/src/queue.rs): the playback queue with its     *)
(* forward-only live edge (current_item), its history log and history      *)
(* cursor, the optional shuffle order and the short-term (next up) list.   *)
(*                                                                         *)
(* Rust indices are 0-based and are kept 0-based here; At(v, i) reads the  *)
(* i-th element of a Vec.  Option<T> is a sequence of length 0 (None) or 1 *)
(* (Some).  A reference &self.items[i] is modelled by the raw index i of   *)
(* the slot it points to.                                                  *)
(***************************************************************************)
EXTENDS Integers, Sequences, FiniteSets, TLC

\* ------------------------------------------------------------------ bounds
\* Longest item list a queue is constructed from.
MaxInit == 4
\* Longest store (items.len()) that queue() is still called on grows to this.
MaxItems == 3
\* Longest short-term list (next_up_items.len()).
MaxNextUp == 1
\* Longest store whose shuffle order a set-up assigns directly.
MaxPreset == 3
\* Longest history (history.len()) a next() call may leave behind.
MaxHistory == 4

\* The payloads a caller stores.  OldQueue is generic over them and never
\* inspects one, so one kind stands for all; what the methods hand out are
\* references to slots of the store, told apart by raw index.
ItemKinds == {"Track"}

\* ------------------------------------------------------------ Option, Vec
None == <<>>
Some(x) == <<x>>
IsSome(o) == o # <<>>
Unwrap(o) == o[1]

At(v, i) == v[i + 1]
InBounds(v, i) == i >= 0 /\ i < Len(v)
Range(v) == {v[i] : i \in 1..Len(v)}

\* (0..size).collect()
Iota(size) == [i \in 1..size |-> i - 1]

\* Every outcome of v[from..].shuffle(rng): the first `from` elements stay,
\* the rest is rearranged by any permutation.
ShuffleFrom(v, from) ==
    {[i \in 1..Len(v) |-> IF i <= from THEN v[i] ELSE v[p[i]]] :
        p \in Permutations((from + 1)..Len(v))}

\* v[from..].sort(): the rearrangement of the tail that is ascending.
SortFrom(v, from) ==
    CHOOSE w \in ShuffleFrom(v, from) :
        \A i \in (from + 1)..Len(v) : \A j \in (i + 1)..Len(v) : w[i] <= w[j]

\* util.rs: a uniformly random permutation of 0..size; any one can come out.
shuffled_vec(size) == ShuffleFrom(Iota(size), 0)

\* ------------------------------------------------------------------- state
VARIABLES
    history,              \* Vec<usize>: raw indices of the played items
    history_index,        \* Option<usize>: cursor inside history
    repeat_status,        \* Option<RepeatMode>
    unshuffle_strat,      \* UnshuffleStrategy
    shuffle_order,        \* Option<Vec<usize>>: logical position -> raw index
    current_next_up_item, \* Option<usize>
    next_up_items,        \* Vec<QueueItem>: the short-term list
    current_item,         \* Option<usize>: the live edge
    items,                \* Vec<QueueItem>: the store
    last,                 \* the last call made on the queue and what it returned
    calls,                \* history variable: the calls since construction, while
                          \* they are next() calls followed by previous() calls
    round_trip            \* history variable: what was observed before a next()
                          \* at the live edge, kept over a directly following
                          \* previous()

vars == <<history, history_index, repeat_status, unshuffle_strat, shuffle_order,
          current_next_up_item, next_up_items, current_item, items, last,
          calls, round_trip>>

\* The queue as one value, so that the methods are operators on it.
Q == [history |-> history, history_index |-> history_index,
      repeat_status |-> repeat_status, unshuffle_strat |-> unshuffle_strat,
      shuffle_order |-> shuffle_order,
      current_next_up_item |-> current_next_up_item,
      next_up_items |-> next_up_items, current_item |-> current_item,
      items |-> items]

\* impl From<Vec<QueueItem>> for OldQueue; Default is from(vec![]).
from(its) ==
    [history |-> <<>>, history_index |-> None, repeat_status |-> None,
     unshuffle_strat |-> "PlayUnplayed", shuffle_order |-> None,
     current_next_up_item |-> None, next_up_items |-> <<>>,
     current_item |-> IF its = <<>> THEN None ELSE Some(0),
     items |-> its]

\* OldQueue::default(): the empty, stopped queue.
default ==
    [history |-> <<>>, history_index |-> None, repeat_status |-> None,
     shuffle_order |-> None, unshuffle_strat |-> "PlayUnplayed",
     current_next_up_item |-> None, next_up_items |-> <<>>,
     current_item |-> None, items |-> <<>>]

\* ----------------------------------------------------------------- methods
len(s) == Len(s.items)
is_shuffled(s) == IsSome(s.shuffle_order)
is_playing(s) == IsSome(s.current_item)

Ok(v) == [tag |-> "Ok", val |-> v]
Err(e) == [tag |-> "Err", val |-> e]
Panic == [tag |-> "Panic", val |-> "index out of bounds"]
Overflow == [tag |-> "Panic", val |-> "attempt to subtract with overflow"]

\* next() with the end test off by one (index < len instead of len - 1).
next_past_end(s) ==
    IF IsSome(s.current_item)
    THEN LET index == Unwrap(s.current_item) IN
         IF IsSome(s.history_index)
         THEN LET hi == Unwrap(s.history_index) IN
              IF hi + 1 = index
              THEN [q |-> [s EXCEPT !.history_index = None], res |-> Ok("unit")]
              ELSE [q |-> [s EXCEPT !.history_index = Some(hi + 1)],
                    res |-> Ok("unit")]
         ELSE IF index < len(s)
              THEN LET played == IF IsSome(s.shuffle_order)
                                 THEN At(Unwrap(s.shuffle_order), index)
                                 ELSE index
                   IN [q |-> [s EXCEPT !.history = Append(@, played),
                                       !.current_item = Some(index + 1)],
                       res |-> Ok("unit")]
              ELSE [q |-> s, res |-> Err("ReachedEnd")]
    ELSE [q |-> s, res |-> Err("NotPlaying")]

\* next() logging the logical position even when a shuffle order is present.
next_logs_position(s) ==
    IF IsSome(s.current_item)
    THEN LET index == Unwrap(s.current_item) IN
         IF IsSome(s.history_index)
         THEN LET hi == Unwrap(s.history_index) IN
              IF hi + 1 = index
              THEN [q |-> [s EXCEPT !.history_index = None], res |-> Ok("unit")]
              ELSE [q |-> [s EXCEPT !.history_index = Some(hi + 1)],
                    res |-> Ok("unit")]
         ELSE IF index < len(s) - 1
              THEN [q |-> [s EXCEPT !.history = Append(@, index),
                                    !.current_item = Some(index + 1)],
                    res |-> Ok("unit")]
              ELSE [q |-> s, res |-> Err("ReachedEnd")]
    ELSE [q |-> s, res |-> Err("NotPlaying")]

\* next() that moves the live edge on without logging the item it leaves.
next_no_log(s) ==
    IF IsSome(s.current_item)
    THEN LET index == Unwrap(s.current_item) IN
         IF IsSome(s.history_index)
         THEN LET hi == Unwrap(s.history_index) IN
              IF hi + 1 = index
              THEN [q |-> [s EXCEPT !.history_index = None], res |-> Ok("unit")]
              ELSE [q |-> [s EXCEPT !.history_index = Some(hi + 1)],
                    res |-> Ok("unit")]
         ELSE IF index < len(s) - 1
              THEN [q |-> [s EXCEPT !.current_item = Some(index + 1)],
                    res |-> Ok("unit")]
              ELSE [q |-> s, res |-> Err("ReachedEnd")]
    ELSE [q |-> s, res |-> Err("NotPlaying")]

\* next() that logs the viewed item again while moving forward through the
\* history.
next_relogs(s) ==
    IF IsSome(s.current_item)
    THEN LET index == Unwrap(s.current_item) IN
         IF IsSome(s.history_index)
         THEN LET hi == Unwrap(s.history_index) IN
              IF hi + 1 = index
              THEN [q |-> [s EXCEPT !.history_index = None,
                                    !.history = Append(@, At(@, hi))],
                    res |-> Ok("unit")]
              ELSE [q |-> [s EXCEPT !.history_index = Some(hi + 1),
                                    !.history = Append(@, At(@, hi))],
                    res |-> Ok("unit")]
         ELSE IF index < len(s) - 1
              THEN LET played == IF IsSome(s.shuffle_order)
                                 THEN At(Unwrap(s.shuffle_order), index)
                                 ELSE index
                   IN [q |-> [s EXCEPT !.history = Append(@, played),
                                       !.current_item = Some(index + 1)],
                       res |-> Ok("unit")]
              ELSE [q |-> s, res |-> Err("ReachedEnd")]
    ELSE [q |-> s, res |-> Err("NotPlaying")]

\* next() that stops playback when it fails at the end of the queue.
next_stops_at_end(s) ==
    IF IsSome(s.current_item)
    THEN LET index == Unwrap(s.current_item) IN
         IF IsSome(s.history_index)
         THEN LET hi == Unwrap(s.history_index) IN
              IF hi + 1 = index
              THEN [q |-> [s EXCEPT !.history_index = None], res |-> Ok("unit")]
              ELSE [q |-> [s EXCEPT !.history_index = Some(hi + 1)],
                    res |-> Ok("unit")]
         ELSE IF index < len(s) - 1
              THEN LET played == IF IsSome(s.shuffle_order)
                                 THEN At(Unwrap(s.shuffle_order), index)
                                 ELSE index
                   IN [q |-> [s EXCEPT !.history = Append(@, played),
                                       !.current_item = Some(index + 1)],
                       res |-> Ok("unit")]
              ELSE [q |-> [s EXCEPT !.current_item = None],
                    res |-> Err("ReachedEnd")]
    ELSE [q |-> s, res |-> Err("NotPlaying")]

\* The live-edge step of next() once `*index < self.items.len() - 1` was
\* found true: log the item at the live edge and move on, or panic on
\* shuffle_indices[*index] when the order is too short.
Advance(s) ==
    LET index == Unwrap(s.current_item) IN
    IF IsSome(s.shuffle_order) /\ ~InBounds(Unwrap(s.shuffle_order), index)
    THEN [q |-> s, res |-> Panic]
    ELSE LET played == IF IsSome(s.shuffle_order)
                       THEN At(Unwrap(s.shuffle_order), index)
                       ELSE index
         IN [q |-> [s EXCEPT !.history = Append(@, played),
                             !.current_item = Some(index + 1)],
             res |-> Ok("unit")]

\* next(): the queue after the call and the Result it returns. On an empty
\* store `self.items.len() - 1` underflows: this is the build with overflow
\* checks (debug and test profiles), which panics there.
next(s) ==
    IF IsSome(s.current_item)
    THEN LET index == Unwrap(s.current_item) IN
         IF IsSome(s.history_index)
         THEN LET hi == Unwrap(s.history_index) IN
              IF hi + 1 = index
              THEN [q |-> [s EXCEPT !.history_index = None], res |-> Ok("unit")]
              ELSE [q |-> [s EXCEPT !.history_index = Some(hi + 1)],
                    res |-> Ok("unit")]
         ELSE IF len(s) = 0
              THEN [q |-> s, res |-> Overflow]
              ELSE IF index < len(s) - 1
                   THEN Advance(s)
                   ELSE [q |-> s, res |-> Err("ReachedEnd")]
    ELSE [q |-> s, res |-> Err("NotPlaying")]

\* Every outcome of next() a build can produce: without overflow checks
\* (release profile) `0 - 1` wraps to usize::MAX and the comparison is true.
next_outcomes(s) ==
    IF IsSome(s.current_item) /\ s.history_index = None /\ len(s) = 0
    THEN {next(s), Advance(s)}
    ELSE {next(s)}

\* previous() whose first step back lands on the start of the history.
previous_to_start(s) ==
    IF IsSome(s.current_item)
    THEN LET index == Unwrap(s.current_item) IN
         IF IsSome(s.history_index)
         THEN LET hi == Unwrap(s.history_index) IN
              IF hi > 0
              THEN [q |-> [s EXCEPT !.history_index = Some(hi - 1)],
                    res |-> Ok("unit")]
              ELSE [q |-> s, res |-> Err("ReachedBeginning")]
         ELSE IF index > 0
              THEN [q |-> [s EXCEPT !.history_index = Some(0)],
                    res |-> Ok("unit")]
              ELSE [q |-> s, res |-> Err("ReachedBeginning")]
    ELSE [q |-> s, res |-> Err("NotPlaying")]

\* previous() without the outer test of current_item: a stopped queue is
\* told it reached the beginning.
previous_unchecked(s) ==
    IF IsSome(s.history_index)
    THEN LET hi == Unwrap(s.history_index) IN
         IF hi > 0
         THEN [q |-> [s EXCEPT !.history_index = Some(hi - 1)],
               res |-> Ok("unit")]
         ELSE [q |-> s, res |-> Err("ReachedBeginning")]
    ELSE IF IsSome(s.current_item) /\ Unwrap(s.current_item) > 0
         THEN [q |-> [s EXCEPT !.history_index = Some(Unwrap(s.current_item) - 1)],
               res |-> Ok("unit")]
         ELSE [q |-> s, res |-> Err("ReachedBeginning")]

\* previous() whose first step back moves the live edge itself back.
previous_rewinds(s) ==
    IF IsSome(s.current_item)
    THEN LET index == Unwrap(s.current_item) IN
         IF IsSome(s.history_index)
         THEN LET hi == Unwrap(s.history_index) IN
              IF hi > 0
              THEN [q |-> [s EXCEPT !.history_index = Some(hi - 1)],
                    res |-> Ok("unit")]
              ELSE [q |-> s, res |-> Err("ReachedBeginning")]
         ELSE IF index > 0
              THEN [q |-> [s EXCEPT !.current_item = Some(index - 1)],
                    res |-> Ok("unit")]
              ELSE [q |-> s, res |-> Err("ReachedBeginning")]
    ELSE [q |-> s, res |-> Err("NotPlaying")]

\* previous(): the queue after the call and the Result it returns.
previous(s) ==
    IF IsSome(s.current_item)
    THEN LET index == Unwrap(s.current_item) IN
         IF IsSome(s.history_index)
         THEN LET hi == Unwrap(s.history_index) IN
              IF hi > 0
              THEN [q |-> [s EXCEPT !.history_index = Some(hi - 1)],
                    res |-> Ok("unit")]
              ELSE [q |-> s, res |-> Err("ReachedBeginning")]
         ELSE IF index > 0
              THEN [q |-> [s EXCEPT !.history_index = Some(index - 1)],
                    res |-> Ok("unit")]
              ELSE [q |-> s, res |-> Err("ReachedBeginning")]
    ELSE [q |-> s, res |-> Err("NotPlaying")]

\* One indexing self.items[raw]: the reference, or the panic of Vec's Index.
ItemRef(s, raw) == IF InBounds(s.items, raw) THEN Ok(raw) ELSE Panic

\* get_current_item() that ignores the live edge when not shuffled and hands
\* out the first item.
get_current_item_first(s) ==
    IF IsSome(s.current_item)
    THEN LET index == Unwrap(s.current_item) IN
         IF IsSome(s.history_index)
         THEN IF InBounds(s.history, Unwrap(s.history_index))
              THEN ItemRef(s, At(s.history, Unwrap(s.history_index)))
              ELSE Panic
         ELSE IF IsSome(s.shuffle_order)
              THEN IF InBounds(Unwrap(s.shuffle_order), index)
                   THEN ItemRef(s, At(Unwrap(s.shuffle_order), index))
                   ELSE Panic
              ELSE ItemRef(s, 0)
    ELSE Err("NotPlaying")

\* get_current_item(): a reference to the playing item (its raw index).
get_current_item(s) ==
    IF IsSome(s.current_item)
    THEN LET index == Unwrap(s.current_item) IN
         IF IsSome(s.history_index)
         THEN IF InBounds(s.history, Unwrap(s.history_index))
              THEN ItemRef(s, At(s.history, Unwrap(s.history_index)))
              ELSE Panic
         ELSE IF IsSome(s.shuffle_order)
              THEN IF InBounds(Unwrap(s.shuffle_order), index)
                   THEN ItemRef(s, At(Unwrap(s.shuffle_order), index))
                   ELSE Panic
              ELSE ItemRef(s, index)
    ELSE Err("NotPlaying")

\* The raw indices pushed by one of get_items' loops over positions lo..hi-1
\* of idx (a Vec<usize>), or over the positions themselves when idx is None.
Resolved(idx, lo, hi) ==
    [k \in 1..(IF hi > lo THEN hi - lo ELSE 0) |->
        IF IsSome(idx) THEN At(Unwrap(idx), lo + k - 1) ELSE lo + k - 1]

\* get_items() whose second loop starts one past the live edge
\* (index + 1..) and so leaves the current item out.
get_items_skips_current(s) ==
    IF IsSome(s.current_item)
    THEN LET index == Unwrap(s.current_item)
             upto == IF IsSome(s.shuffle_order)
                     THEN Len(Unwrap(s.shuffle_order)) ELSE len(s)
             refs == s.history \o Resolved(s.shuffle_order, index + 1, upto)
         IN IF \A k \in 1..Len(refs) : InBounds(s.items, refs[k])
            THEN Ok(refs) ELSE Panic
    ELSE IF IsSome(s.shuffle_order)
         THEN IF len(s) = 0 THEN Ok(<<>>) ELSE Panic
         ELSE Ok(Iota(len(s)))

\* get_items(): the references in play order (raw indices), or the panic.
get_items(s) ==
    IF IsSome(s.current_item)
    THEN LET index == Unwrap(s.current_item)
             upto == IF IsSome(s.shuffle_order)
                     THEN Len(Unwrap(s.shuffle_order)) ELSE len(s)
             refs == s.history \o Resolved(s.shuffle_order, index, upto)
         IN IF \A k \in 1..Len(refs) : InBounds(s.items, refs[k])
            THEN Ok(refs) ELSE Panic
    ELSE IF IsSome(s.shuffle_order)
         THEN \* items[index] = ... on the Vec that was only given a capacity
              IF len(s) = 0 THEN Ok(<<>>) ELSE Panic
         ELSE Ok(Iota(len(s)))

\* shuffle() that rearranges from the live edge on ([index..]) instead of
\* from the position after it.
shuffle_from_current(s) ==
    IF IsSome(s.current_item)
    THEN LET index == Unwrap(s.current_item) IN
         IF index < len(s) - 1
         THEN IF IsSome(s.shuffle_order)
              THEN {[s EXCEPT !.shuffle_order = Some(w)] :
                        w \in ShuffleFrom(Unwrap(s.shuffle_order), index)}
              ELSE {[s EXCEPT !.shuffle_order = Some(w)] :
                        w \in ShuffleFrom(Iota(len(s)), index)}
         ELSE {s}
    ELSE {[s EXCEPT !.shuffle_order = Some(w)] : w \in shuffled_vec(len(s))}

\* shuffle() that, on the last item, still turns an unshuffled queue into a
\* shuffled one (with the identity order).
shuffle_marks_last(s) ==
    IF IsSome(s.current_item)
    THEN LET index == Unwrap(s.current_item) IN
         IF index < len(s) - 1
         THEN IF IsSome(s.shuffle_order)
              THEN {[s EXCEPT !.shuffle_order = Some(w)] :
                        w \in ShuffleFrom(Unwrap(s.shuffle_order), index + 1)}
              ELSE {[s EXCEPT !.shuffle_order = Some(w)] :
                        w \in ShuffleFrom(Iota(len(s)), index + 1)}
         ELSE IF IsSome(s.shuffle_order)
              THEN {s}
              ELSE {[s EXCEPT !.shuffle_order = Some(Iota(len(s)))]}
    ELSE {[s EXCEPT !.shuffle_order = Some(w)] : w \in shuffled_vec(len(s))}

\* shuffle(): every queue the call can leave behind. When it panics (the
\* underflow of `self.items.len() - 1` on an empty store, or a slice that
\* starts past the end of the order) the queue is left as it was.
shuffle(s) ==
    IF IsSome(s.current_item)
    THEN LET index == Unwrap(s.current_item) IN
         IF index < len(s) - 1
         THEN IF IsSome(s.shuffle_order)
              THEN {[s EXCEPT !.shuffle_order = Some(w)] :
                        w \in ShuffleFrom(Unwrap(s.shuffle_order), index + 1)}
              ELSE {[s EXCEPT !.shuffle_order = Some(w)] :
                        w \in ShuffleFrom(Iota(len(s)), index + 1)}
         ELSE {s}
    ELSE {[s EXCEPT !.shuffle_order = Some(w)] : w \in shuffled_vec(len(s))}

\* unshuffle() whose PlayUnplayed arm sorts from the live edge on ([index..])
\* instead of from the position after it.
unshuffle_sorts_current(s) ==
    IF IsSome(s.current_item)
    THEN LET index == Unwrap(s.current_item) IN
         IF IsSome(s.shuffle_order)
         THEN LET so == Unwrap(s.shuffle_order) IN
              CASE s.unshuffle_strat = "PlayUnplayed" ->
                     IF index # len(s) - 1
                     THEN [s EXCEPT !.shuffle_order = Some(SortFrom(so, index))]
                     ELSE s
                [] s.unshuffle_strat = "KeepRawIndex" ->
                     [s EXCEPT !.shuffle_order =
                         Some([i \in 1..Len(so) |->
                                 IF i - 1 >= index + 1 /\ i - 1 < len(s)
                                 THEN i - 1 ELSE so[i]])]
         ELSE s
    ELSE [s EXCEPT !.shuffle_order = None]

\* unshuffle() whose KeepRawIndex arm renumbers from the live edge on
\* (index..) instead of from the position after it.
unshuffle_renumbers_current(s) ==
    IF IsSome(s.current_item)
    THEN LET index == Unwrap(s.current_item) IN
         IF IsSome(s.shuffle_order)
         THEN LET so == Unwrap(s.shuffle_order) IN
              CASE s.unshuffle_strat = "PlayUnplayed" ->
                     IF index # len(s) - 1
                     THEN [s EXCEPT !.shuffle_order = Some(SortFrom(so, index + 1))]
                     ELSE s
                [] s.unshuffle_strat = "KeepRawIndex" ->
                     [s EXCEPT !.shuffle_order =
                         Some([i \in 1..Len(so) |->
                                 IF i - 1 >= index /\ i - 1 < len(s)
                                 THEN i - 1 ELSE so[i]])]
         ELSE s
    ELSE [s EXCEPT !.shuffle_order = None]

\* unshuffle() that drops the shuffle order while playing, as it does when
\* stopped.
unshuffle_drops_order(s) == [s EXCEPT !.shuffle_order = None]

\* unshuffle() that renumbers the positions after the live edge by raw index
\* whatever the strategy is.
unshuffle_by_raw_index(s) ==
    IF IsSome(s.current_item)
    THEN LET index == Unwrap(s.current_item) IN
         IF IsSome(s.shuffle_order)
         THEN LET so == Unwrap(s.shuffle_order) IN
              [s EXCEPT !.shuffle_order =
                  Some([i \in 1..Len(so) |->
                          IF i - 1 >= index + 1 /\ i - 1 < len(s)
                          THEN i - 1 ELSE so[i]])]
         ELSE s
    ELSE [s EXCEPT !.shuffle_order = None]

\* unshuffle(): the queue the call leaves behind (the two implemented
\* strategies; KeepIndex and FromBeginning are todo!()). A panic, on the
\* underflow of `self.items.len() - 1` with overflow checks or on a slice
\* that starts past the end of the order, leaves the queue as it was.
unshuffle(s) ==
    IF IsSome(s.current_item)
    THEN LET index == Unwrap(s.current_item) IN
         IF IsSome(s.shuffle_order)
         THEN LET so == Unwrap(s.shuffle_order) IN
              CASE s.unshuffle_strat = "PlayUnplayed" ->
                     IF len(s) # 0 /\ index # len(s) - 1
                     THEN [s EXCEPT !.shuffle_order = Some(SortFrom(so, index + 1))]
                     ELSE s
                [] s.unshuffle_strat = "KeepRawIndex" ->
                     [s EXCEPT !.shuffle_order =
                         Some([i \in 1..Len(so) |->
                                 IF i - 1 >= index + 1 /\ i - 1 < len(s)
                                 THEN i - 1 ELSE so[i]])]
         ELSE s
    ELSE [s EXCEPT !.shuffle_order = None]

\* Every queue unshuffle() can leave behind in some build: without overflow
\* checks `self.items.len() - 1` on an empty store wraps, index differs from
\* it, and the tail of the order is sorted.
unshuffle_outcomes(s) ==
    IF /\ IsSome(s.current_item) /\ IsSome(s.shuffle_order)
       /\ s.unshuffle_strat = "PlayUnplayed" /\ len(s) = 0
    THEN {unshuffle(s),
          [s EXCEPT !.shuffle_order =
              Some(SortFrom(Unwrap(s.shuffle_order), Unwrap(s.current_item) + 1))]}
    ELSE {unshuffle(s)}

\* play(): the stub that marks the queue as playing from position 0.
play(s) == [s EXCEPT !.current_item = Some(0), !.current_next_up_item = Some(0)]

\* toggle_shuffle()
toggle_shuffle(s) ==
    IF IsSome(s.shuffle_order) THEN unshuffle_outcomes(s) ELSE shuffle(s)

\* queue(item) that rearranges the unplayed items whether or not a shuffle
\* order is in use.
queue_always_shuffles(s, item) ==
    LET pushed == [s EXCEPT !.items = Append(@, item)] IN
    IF IsSome(s.current_item) /\ IsSome(s.shuffle_order)
    THEN LET so == Unwrap(s.shuffle_order) IN
         shuffle([pushed EXCEPT !.shuffle_order = Some(Append(so, Len(so)))])
    ELSE shuffle(pushed)

\* queue(item): every queue the call can leave behind.
queue(s, item) ==
    LET pushed == [s EXCEPT !.items = Append(@, item)] IN
    IF IsSome(s.current_item) /\ IsSome(s.shuffle_order)
    THEN LET so == Unwrap(s.shuffle_order) IN
         shuffle([pushed EXCEPT !.shuffle_order = Some(Append(so, Len(so)))])
    ELSE {pushed}

\* queue_next(item)
queue_next(s, item) == [s EXCEPT !.next_up_items = Append(@, item)]

\* clear() that empties the store and forgets to reset the live edge.
clear_items_only(s) == [s EXCEPT !.items = <<>>]

\* clear()
clear(s) == [s EXCEPT !.items = <<>>, !.current_item = None]

\* ----------------------------------------------------------------- actions
Becomes(s) ==
    /\ history' = s.history
    /\ history_index' = s.history_index
    /\ repeat_status' = s.repeat_status
    /\ unshuffle_strat' = s.unshuffle_strat
    /\ shuffle_order' = s.shuffle_order
    /\ current_next_up_item' = s.current_next_up_item
    /\ next_up_items' = s.next_up_items
    /\ current_item' = s.current_item
    /\ items' = s.items

Call(op, res) == [op |-> op, res |-> res]

\* What a Result<(), QueueError> is recorded as.
Outcome(r) == IF r.tag = "Ok" THEN "Ok" ELSE r.val

\* The call log once the calls left the pattern next()* previous()*.
Off == <<Call("off", "off")>>

Logged(call) ==
    IF /\ calls # Off
       /\ Len(calls) < 2 * Len(items) + 2
       /\ \/ call.op = "previous"
          \/ call.op = "next" /\ \A i \in 1..Len(calls) : calls[i].op = "next"
    THEN Append(calls, call)
    ELSE Off

Init ==
    \E n \in 0..MaxInit : \E its \in [1..n -> ItemKinds] :
        /\ history = from(its).history
        /\ history_index = from(its).history_index
        /\ repeat_status = from(its).repeat_status
        /\ unshuffle_strat = from(its).unshuffle_strat
        /\ shuffle_order = from(its).shuffle_order
        /\ current_next_up_item = from(its).current_next_up_item
        /\ next_up_items = from(its).next_up_items
        /\ current_item = from(its).current_item
        /\ items = from(its).items
        /\ last = Call("from", "unit")
        /\ calls = <<>>
        /\ round_trip = None

CallNext ==
    \E o \in next_outcomes(Q) :
        /\ Len(o.q.history) <= MaxHistory
        /\ Becomes(o.q)
        /\ last' = Call("next", Outcome(o.res))
        /\ calls' = Logged(last')
        /\ round_trip' =
              IF is_playing(Q) /\ history_index = None
              THEN Some([stage |-> "next", res |-> last'.res,
                         cur |-> get_current_item(Q), order |-> shuffle_order,
                         hist |-> history])
              ELSE None

CallPrevious ==
    /\ Becomes(previous(Q).q)
    /\ last' = Call("previous", Outcome(previous(Q).res))
    /\ calls' = Logged(last')
    /\ round_trip' =
          IF IsSome(round_trip) /\ Unwrap(round_trip).stage = "next"
             /\ Unwrap(round_trip).res = "Ok"
          THEN Some([Unwrap(round_trip) EXCEPT !.stage = "previous"])
          ELSE None

CallQueue ==
    /\ len(Q) < MaxItems
    /\ \E item \in ItemKinds : \E s \in queue(Q, item) : Becomes(s)
    /\ last' = Call("queue", "unit")
    /\ calls' = Off
    /\ round_trip' = None

CallQueueNext ==
    /\ Len(next_up_items) < MaxNextUp
    /\ \E item \in ItemKinds : Becomes(queue_next(Q, item))
    /\ last' = Call("queue_next", "unit")
    /\ calls' = Off
    /\ round_trip' = None

CallClear ==
    /\ Becomes(clear(Q))
    /\ last' = Call("clear", "unit")
    /\ calls' = Off
    /\ round_trip' = None

CallShuffle ==
    /\ \E s \in shuffle(Q) : Becomes(s)
    /\ last' = Call("shuffle", "unit")
    /\ calls' = Off
    /\ round_trip' = None

CallUnshuffle ==
    /\ \E s \in unshuffle_outcomes(Q) : Becomes(s)
    /\ last' = Call("unshuffle", "unit")
    /\ calls' = Off
    /\ round_trip' = None

CallToggleShuffle ==
    /\ \E s \in toggle_shuffle(Q) : Becomes(s)
    /\ last' = Call("toggle_shuffle", "unit")
    /\ calls' = Off
    /\ round_trip' = None

Next ==
    \/ CallNext
    \/ CallPrevious
    \/ CallQueue
    \/ CallQueueNext
    \/ CallClear
    \/ CallShuffle
    \/ CallUnshuffle
    \/ CallToggleShuffle

Spec == Init /\ [][Next]_vars

\* The queue as the KeepRawIndex tests set it up: built by from(), then the
\* private fields unshuffle_strat and shuffle_order assigned directly (any
\* permutation of a store of up to MaxPreset items, or none).
InitKeepRawIndex ==
    \E k \in 0..MaxInit : \E its \in [1..k -> ItemKinds] :
    \E order \in {None} \cup (IF k <= MaxPreset
                             THEN {Some(w) : w \in shuffled_vec(k)} ELSE {}) :
        /\ history = from(its).history
        /\ history_index = from(its).history_index
        /\ repeat_status = from(its).repeat_status
        /\ unshuffle_strat = "KeepRawIndex"
        /\ shuffle_order = order
        /\ current_next_up_item = from(its).current_next_up_item
        /\ next_up_items = from(its).next_up_items
        /\ current_item = from(its).current_item
        /\ items = from(its).items
        /\ last = Call("from", "unit")
        /\ calls = Off
        /\ round_trip = None

\* The same methods on a queue set up with the strategy KeepRawIndex.
SpecKeepRawIndex == InitKeepRawIndex /\ [][Next]_vars

\* from() followed by the choice of one of the two implemented unshuffle
\* strategies.
InitEitherStrategy ==
    \E k \in 0..MaxInit : \E its \in [1..k -> ItemKinds] :
    \E strat \in {"PlayUnplayed", "KeepRawIndex"} :
        /\ history = from(its).history
        /\ history_index = from(its).history_index
        /\ repeat_status = from(its).repeat_status
        /\ unshuffle_strat = strat
        /\ shuffle_order = from(its).shuffle_order
        /\ current_next_up_item = from(its).current_next_up_item
        /\ next_up_items = from(its).next_up_items
        /\ current_item = from(its).current_item
        /\ items = from(its).items
        /\ last = Call("from", "unit")
        /\ calls = <<>>
        /\ round_trip = None

\* The queue of Spec under either implemented unshuffle strategy.
SpecEitherStrategy == InitEitherStrategy /\ [][Next]_vars

\* The host calls play(), once in a behaviour (play() is the one writer of
\* current_next_up_item).
CallPlay ==
    /\ current_next_up_item = None
    /\ Becomes(play(Q))
    /\ last' = Call("play", "unit")
    /\ calls' = Off
    /\ round_trip' = None

NextPlay ==
    \/ Next
    \/ CallPlay

InitDefault ==
    /\ history = default.history
    /\ history_index = default.history_index
    /\ repeat_status = default.repeat_status
    /\ unshuffle_strat = default.unshuffle_strat
    /\ shuffle_order = default.shuffle_order
    /\ current_next_up_item = default.current_next_up_item
    /\ next_up_items = default.next_up_items
    /\ current_item = default.current_item
    /\ items = default.items
    /\ last = Call("default", "unit")
    /\ calls = <<>>
    /\ round_trip = None

\* A queue made by default() and filled by queue(), with a host that also
\* calls play().
SpecPlay == InitDefault /\ [][NextPlay]_vars

\* The host assigning the public field repeat_status.
SetRepeatStatus ==
    /\ \E mode \in {None, Some("All"), Some("Container"), Some("Item")} :
           Becomes([Q EXCEPT !.repeat_status = mode])
    /\ last' = Call("set_repeat", "unit")
    /\ calls' = Off
    /\ round_trip' = None

NextRepeat ==
    \/ Next
    \/ SetRepeatStatus

\* The queue of Spec with a host that also sets the repeat mode.
SpecRepeat == Init /\ [][NextRepeat]_vars

\* ------------------------------------------------------------------ claims
n == Len(items)
Stopped == current_item = None
LiveEdge == IsSome(current_item) /\ history_index = None
Viewing == IsSome(current_item) /\ IsSome(history_index)
live_edge == Unwrap(current_item)

\* The logical position -> raw index mapping of a shuffle order, the identity
\* when there is none.
MapAt(so, i) == IF IsSome(so) THEN At(Unwrap(so), i) ELSE i

\* The logged calls are next() calls only, and how many of them returned Ok.
OnlyNextCalls == calls # Off /\ \A i \in 1..Len(calls) : calls[i].op = "next"
OkCalls == Cardinality({i \in 1..Len(calls) : calls[i].res = "Ok"})
\* In a log next()* previous()*: the number of next() calls.
NextCalls == Cardinality({i \in 1..Len(calls) : calls[i].op = "next"})

\* C1: a queue constructed from n >= 1 items on which only next() was called
\* (so it is not shuffled) has as its current item the item at raw index j,
\* where j is the number of next() calls that succeeded so far; j = 0 right
\* after construction, and j never exceeds n - 1.
C1_CurrentItemAfterNexts ==
    (n >= 1 /\ OnlyNextCalls) =>
        /\ OkCalls <= n - 1
        /\ get_current_item(Q) = Ok(OkCalls)

\* C1's case: the longest constructed queue stepped to its last item by
\* next() calls alone.
C1_Witness ==
    /\ OnlyNextCalls
    /\ n = MaxInit
    /\ OkCalls = n - 1
    /\ last = Call("next", "Ok")
    /\ get_current_item(Q) = Ok(n - 1)

\* C2: on a queue of n >= 1 items that is only stepped with next(), the
\* first n - 1 calls succeed and every later one fails with ReachedEnd; when
\* previous() calls follow from position n - 1, the first n - 1 of them
\* succeed and every later one fails with ReachedBeginning.
C2_NextThenPreviousCounts ==
    (n >= 1 /\ calls # Off) =>
        /\ \A i \in 1..NextCalls :
              calls[i].res = IF i <= n - 1 THEN "Ok" ELSE "ReachedEnd"
        /\ NextCalls >= n - 1 =>
              \A i \in (NextCalls + 1)..Len(calls) :
                  calls[i].res = IF i - NextCalls <= n - 1
                                 THEN "Ok" ELSE "ReachedBeginning"

\* C2's case: n next() calls (the last one failing) followed by n previous()
\* calls (the last one failing) on the longest constructed queue.
C2_Witness ==
    /\ calls # Off
    /\ n = MaxInit
    /\ NextCalls = n
    /\ Len(calls) = 2 * n
    /\ calls[n].res = "ReachedEnd"
    /\ last = Call("previous", "ReachedBeginning")

\* C3: after a successful next() taken at the live edge and the previous()
\* that directly follows it, previous() has succeeded, the current item is
\* the one that was current before the next(), the shuffle order is the one
\* from before, and the history is the one from before plus the single entry
\* next() logged (the raw index that was current).
C3_NextPreviousRoundTrip ==
    (IsSome(round_trip) /\ Unwrap(round_trip).stage = "previous") =>
        LET before == Unwrap(round_trip) IN
        /\ last = Call("previous", "Ok")
        /\ before.cur.tag = "Ok"
        /\ get_current_item(Q) = before.cur
        /\ shuffle_order = before.order
        /\ history = Append(before.hist, before.cur.val)

\* C3's case: the round trip made from an interior position of a shuffled
\* queue whose current item is not the one the raw order would give.
C3_Witness ==
    /\ IsSome(round_trip)
    /\ Unwrap(round_trip).stage = "previous"
    /\ is_shuffled(Q)
    /\ Len(Unwrap(round_trip).hist) >= 1
    /\ Unwrap(round_trip).cur.val # Len(Unwrap(round_trip).hist)

\* C4: in a playing, shuffled queue with shuffle order P, at the live edge p
\* the current item is the one at raw index P[p]; while viewing position k
\* it is the one at raw index history[k], and history[k] = P[k].
C4_CurrentItemShuffled ==
    (IsSome(current_item) /\ is_shuffled(Q)) =>
        IF history_index = None
        THEN get_current_item(Q) = Ok(At(Unwrap(shuffle_order), live_edge))
        ELSE LET k == Unwrap(history_index) IN
             /\ k < Len(history)
             /\ get_current_item(Q) = Ok(At(history, k))
             /\ At(history, k) = At(Unwrap(shuffle_order), k)

\* C4's case: previous() has stepped back to a position whose raw index is
\* not the position itself.
C4_Witness ==
    /\ Viewing
    /\ is_shuffled(Q)
    /\ last = Call("previous", "Ok")
    /\ At(Unwrap(shuffle_order), Unwrap(history_index)) # Unwrap(history_index)
    /\ get_current_item(Q) = Ok(At(history, Unwrap(history_index)))

\* C5: in the Stopped state next(), previous() and get_current_item() each
\* fail with NotPlaying, whether the queue was built from an empty list or
\* was cleared; a next() or previous() just made on it returned NotPlaying.
C5_StoppedNotPlaying ==
    Stopped =>
        /\ next(Q).res = Err("NotPlaying")
        /\ previous(Q).res = Err("NotPlaying")
        /\ get_current_item(Q) = Err("NotPlaying")
        /\ last.op \in {"next", "previous"} => last.res = "NotPlaying"

\* C5's case: previous() was called on a cleared queue that had been played
\* and browsed.
C5_Witness ==
    /\ Stopped
    /\ history # <<>>
    /\ IsSome(history_index)
    /\ last = Call("previous", "NotPlaying")

\* C6: right after clear(), whatever state it was called in, the store is
\* empty, the queue is not playing and get_current_item() fails with
\* NotPlaying.
C6_ClearStops ==
    last.op = "clear" =>
        /\ len(Q) = 0
        /\ ~is_playing(Q)
        /\ get_current_item(Q) = Err("NotPlaying")

\* C6's case: clear() was called while viewing the history of a shuffled
\* queue.
C6_Witness ==
    /\ last.op = "clear"
    /\ IsSome(history_index)
    /\ is_shuffled(Q)
    /\ history # <<>>

\* C7: right after clear() everything is reset: store, live edge, history,
\* history cursor, short-term list and its cursor.
C7_ClearFullReset ==
    last.op = "clear" =>
        /\ items = <<>>
        /\ current_item = None
        /\ history = <<>>
        /\ history_index = None
        /\ next_up_items = <<>>
        /\ current_next_up_item = None

\* C8: in every state get_items() returns (it does not index out of bounds)
\* a sequence of exactly n references; in the Stopped state that is the whole
\* store, in shuffle order when there is one and in raw order otherwise.
C8_GetItemsLengthN ==
    /\ get_items(Q).tag = "Ok"
    /\ Len(get_items(Q).val) = n
    /\ Stopped => get_items(Q).val = [i \in 1..n |-> MapAt(shuffle_order, i - 1)]

\* What C9 says get_items() reports while playing: the items named by
\* history[0..live_edge), then positions live_edge..n-1 resolved through the
\* shuffle order (raw order when there is none).
PlayedThenRemaining ==
    SubSeq(history, 1, live_edge)
        \o [k \in 1..(n - live_edge) |-> MapAt(shuffle_order, live_edge + k - 1)]

\* C9: while playing, get_items() is the items named by history[0..live_edge)
\* followed by positions live_edge..n-1 resolved through the shuffle order;
\* and a next() or previous() that only moves history_index leaves what
\* get_items() returns unchanged.
C9_GetItemsWhilePlaying ==
    /\ [](IsSome(current_item) =>
            /\ Len(history) >= live_edge
            /\ IsSome(shuffle_order) => Len(Unwrap(shuffle_order)) >= n
            /\ get_items(Q) = Ok(PlayedThenRemaining))
    /\ [][(/\ IsSome(current_item)
           /\ last'.op \in {"next", "previous"}
           /\ history' = history
           /\ current_item' = current_item)
          => get_items(Q') = get_items(Q)]_vars

\* C9's case: previous() moved the cursor into the history of a shuffled
\* queue whose remaining positions are not in raw order.
C9_Witness ==
    /\ Viewing
    /\ is_shuffled(Q)
    /\ last = Call("previous", "Ok")
    /\ live_edge >= 1
    /\ \E i \in live_edge..(n - 1) : At(Unwrap(shuffle_order), i) # i
    /\ get_items(Q).tag = "Ok"

\* v is a bijection on 0..k-1, written as a Vec of length k.
IsBijection(v, k) == Len(v) = k /\ Range(v) = 0..(k - 1)

\* C10: a shuffle() call leaves a shuffle order, if one is present after it,
\* that is a bijection on 0..n; made while playing, it leaves the mapping of
\* every position i <= live_edge as it was (the identity counting as the
\* mapping of an unshuffled queue) and get_current_item() returns what it
\* returned before.
C10_ShuffleKeepsPlayedPrefix ==
    [][last'.op = "shuffle" =>
        /\ IsSome(shuffle_order') =>
              IsBijection(Unwrap(shuffle_order'), Len(items'))
        /\ IsSome(current_item) =>
              /\ \A i \in 0..live_edge :
                    MapAt(shuffle_order', i) = MapAt(shuffle_order, i)
              /\ get_current_item(Q') = get_current_item(Q)]_vars

\* C10's case: shuffle() was called past the first position and left the
\* positions after the live edge out of raw order.
C10_Witness ==
    /\ last.op = "shuffle"
    /\ IsSome(current_item)
    /\ live_edge >= 1
    /\ is_shuffled(Q)
    /\ \E i \in (live_edge + 1)..(n - 1) : At(Unwrap(shuffle_order), i) # i

\* The references get_current_item() returns after each next() call made from
\* queue s, one after the other, up to the first call that fails.
RECURSIVE PlayedByNexts(_)
PlayedByNexts(s) ==
    IF next(s).res.tag = "Ok"
    THEN <<get_current_item(next(s).q).val>> \o PlayedByNexts(next(s).q)
    ELSE <<>>

\* What the first failing next() call of that run returns.
RECURSIVE EndOfNexts(_)
EndOfNexts(s) ==
    IF next(s).res.tag = "Ok" THEN EndOfNexts(next(s).q) ELSE next(s).res

\* The last k elements of v.
LastOf(v, k) == SubSeq(v, Len(v) - k + 1, Len(v))

\* C11: with the strategy PlayUnplayed an unshuffle() call on a playing,
\* shuffled queue leaves the shuffle order's positions 0..=live_edge as they
\* were and puts the same raw indices as before, in ascending order, on the
\* positions after it; the next() calls that follow then play exactly these
\* raw indices in ascending order and end with ReachedEnd.
C11_UnshufflePlayUnplayed ==
    [][(/\ last'.op = "unshuffle"
        /\ unshuffle_strat = "PlayUnplayed"
        /\ IsSome(current_item)
        /\ IsSome(shuffle_order))
       => /\ IsSome(shuffle_order')
          /\ LET old == Unwrap(shuffle_order)
                 new == Unwrap(shuffle_order')
                 rest == (live_edge + 1)..(n - 1)
             IN /\ Len(new) = Len(old)
                /\ \A i \in 0..live_edge : At(new, i) = At(old, i)
                /\ {At(new, i) : i \in rest} = {At(old, i) : i \in rest}
                /\ \A i \in rest : \A j \in rest :
                      i < j => At(new, i) < At(new, j)
                /\ LastOf(PlayedByNexts(Q'), n - 1 - live_edge)
                      = [k \in 1..(n - 1 - live_edge) |-> At(new, live_edge + k)]
                /\ EndOfNexts(Q') = Err("ReachedEnd")]_vars

\* C11's case: unshuffle() was called past the first position of a shuffled
\* queue and left a raw index on the live edge that is not its position, with
\* at least two positions after it.
C11_Witness ==
    /\ last.op = "unshuffle"
    /\ unshuffle_strat = "PlayUnplayed"
    /\ IsSome(current_item)
    /\ is_shuffled(Q)
    /\ live_edge >= 1
    /\ live_edge + 2 <= n - 1
    /\ At(Unwrap(shuffle_order), live_edge) # live_edge

\* C12: with the strategy KeepRawIndex an unshuffle() call on a playing,
\* shuffled queue leaves the shuffle order's positions 0..=live_edge as they
\* were and maps every position i after the live edge to raw index i, so
\* get_current_item() returns what it returned before and the next() calls
\* that follow play raw item i at position i; at the last position the call
\* changes nothing.
C12_UnshuffleKeepRawIndex ==
    [][(/\ last'.op = "unshuffle"
        /\ unshuffle_strat = "KeepRawIndex"
        /\ IsSome(current_item)
        /\ IsSome(shuffle_order))
       => /\ IsSome(shuffle_order')
          /\ LET old == Unwrap(shuffle_order)
                 new == Unwrap(shuffle_order')
             IN /\ Len(new) = Len(old)
                /\ \A i \in 0..live_edge : At(new, i) = At(old, i)
                /\ \A i \in (live_edge + 1)..(n - 1) : At(new, i) = i
          /\ get_current_item(Q') = get_current_item(Q)
          /\ LastOf(PlayedByNexts(Q'), n - 1 - live_edge)
                = [k \in 1..(n - 1 - live_edge) |-> live_edge + k]
          /\ live_edge = n - 1 => Q' = Q]_vars

\* C12's case: unshuffle() was called past the first position on an order
\* that had another raw index on the live edge, and left an order that names
\* one raw index twice.
C12_Witness ==
    /\ last.op = "unshuffle"
    /\ unshuffle_strat = "KeepRawIndex"
    /\ IsSome(current_item)
    /\ is_shuffled(Q)
    /\ live_edge >= 1
    /\ live_edge < n - 1
    /\ At(Unwrap(shuffle_order), live_edge) # live_edge
    /\ Range(Unwrap(shuffle_order)) # 0..(n - 1)

\* C13: queue(item) on an unshuffled queue appends only: len() grows by one,
\* the new item has raw index n and is the last element of get_items(), every
\* stored item keeps its raw index and its place in get_items(), and the live
\* edge, history and history_index are unchanged.
C13_QueueUnshuffledAppends ==
    [][(last'.op = "queue" /\ ~is_shuffled(Q))
       => /\ len(Q') = n + 1
          /\ SubSeq(items', 1, n) = items
          /\ get_items(Q).tag = "Ok"
          /\ get_items(Q') = Ok(Append(get_items(Q).val, n))
          /\ ~is_shuffled(Q')
          /\ current_item' = current_item
          /\ history' = history
          /\ history_index' = history_index]_vars

\* C13's case: queue() was called on an unshuffled queue that is playing,
\* has a played item behind it and is viewing it.
C13_Witness ==
    /\ last.op = "queue"
    /\ ~is_shuffled(Q)
    /\ Viewing
    /\ Len(history) >= 1
    /\ n >= 3

\* A reference to next_up_items[k]; the references get_current_item() hands
\* out into the main store are the raw indices 0, 1, ...
ShortTermRef(k) == 0 - (k + 1)

\* The step C14 and C15 are about: a successful next() right after a
\* queue_next(x) that was made at the live edge of a playing queue with no
\* other short-term item pending.
NextAfterQueueNext ==
    /\ last.op = "queue_next"
    /\ LiveEdge
    /\ Len(next_up_items) = 1
    /\ last'.op = "next"
    /\ last'.res = "Ok"

\* C14: after queue_next(x) at the live edge of a playing queue the next
\* successful next() makes x the item get_current_item() returns and does not
\* move the main live edge, and the next() after it plays the main store's
\* item that follows the position that was current when x was inserted.
C14_QueueNextPlaysNext ==
    [][NextAfterQueueNext
       => /\ get_current_item(Q') = Ok(ShortTermRef(0))
          /\ current_item' = current_item
          /\ next(Q').res.tag = "Ok"
                => get_current_item(next(Q').q)
                      = Ok(MapAt(shuffle_order, live_edge + 1))]_vars

\* C15: once the short-term item x has been played and a further next() has
\* moved on to the following main-store item, previous() succeeds and
\* get_current_item() returns x again.
C15_PreviousIntoShortTerm ==
    [][(NextAfterQueueNext /\ next(Q').res.tag = "Ok")
       => LET back == previous(next(Q').q)
          IN /\ back.res.tag = "Ok"
             /\ get_current_item(back.q) = Ok(ShortTermRef(0))]_vars

\* C16: with the repeat mode All, next() at the live edge on the last
\* position succeeds and resets the live edge to 0 (under a fresh permutation
\* of the whole store if shuffled); with no repeat mode it fails with
\* ReachedEnd.
C16_RepeatAllWraps ==
    [][(last'.op = "next" /\ LiveEdge /\ live_edge = n - 1)
       => /\ repeat_status = Some("All")
                => /\ last'.res = "Ok"
                   /\ current_item' = Some(0)
                   /\ is_shuffled(Q)
                         => /\ IsSome(shuffle_order')
                            /\ IsBijection(Unwrap(shuffle_order'), n)
          /\ repeat_status = None => last'.res = "ReachedEnd"]_vars

\* C17: in every state reached from construction by next, previous, queue,
\* queue_next, shuffle, unshuffle, toggle_shuffle and clear, a live edge
\* Some(p) comes with a history of exactly p entries.
C17_HistoryLenIsLiveEdge ==
    IsSome(current_item) => Len(history) = live_edge

\* C17's case: a playing queue two or more positions in, viewing its
\* history, right after an unshuffle() call.
C17_Witness ==
    /\ IsSome(current_item)
    /\ live_edge >= 2
    /\ Viewing
    /\ last.op = "unshuffle"

\* C18: history_index is Some(k) only while the live edge is Some(p), and
\* then 0 <= k < p; it is never Some in the Stopped state.
C18_HistoryIndexBelowLiveEdge ==
    IsSome(history_index)
        => /\ IsSome(current_item)
           /\ 0 <= Unwrap(history_index)
           /\ Unwrap(history_index) < live_edge

\* C19: the live edge is None exactly when the store is empty
\* (is_playing() == (len() > 0)).
C19_StoppedIffEmpty ==
    (current_item = None) <=> (len(Q) = 0)

\* C20: whenever a shuffle order is present it has length n = len() and
\* contains every raw index in 0..n exactly once.
C20_ShuffleOrderIsPermutation ==
    IsSome(shuffle_order) => IsBijection(Unwrap(shuffle_order), n)

\* Nothing but history_index differs between the state before and after.
OnlyHistoryIndexMoves ==
    /\ history' = history
    /\ current_item' = current_item
    /\ shuffle_order' = shuffle_order
    /\ items' = items

\* C21: moving inside history is side-effect-free: previous() from LiveEdge
\* with live_edge > 0 goes to Viewing(live_edge - 1), previous() from
\* Viewing(k) with k > 0 goes to Viewing(k - 1), next() from Viewing(k) goes
\* to LiveEdge if k + 1 = live_edge and to Viewing(k + 1) otherwise, and each
\* of them changes history_index only.
C21_HistoryMovesAreFree ==
    [][/\ (last'.op = "previous" /\ LiveEdge /\ live_edge > 0)
            => /\ last'.res = "Ok"
               /\ history_index' = Some(live_edge - 1)
               /\ OnlyHistoryIndexMoves
       /\ (last'.op = "previous" /\ Viewing /\ Unwrap(history_index) > 0)
            => /\ last'.res = "Ok"
               /\ history_index' = Some(Unwrap(history_index) - 1)
               /\ OnlyHistoryIndexMoves
       /\ (last'.op = "next" /\ Viewing)
            => /\ last'.res = "Ok"
               /\ history_index' =
                     IF Unwrap(history_index) + 1 = live_edge
                     THEN None ELSE Some(Unwrap(history_index) + 1)
               /\ OnlyHistoryIndexMoves]_vars

\* C21's case: a shuffled queue that moved forward inside its history and
\* is still viewing it.
C21_Witness ==
    /\ last.op = "next"
    /\ last.res = "Ok"
    /\ Viewing
    /\ Unwrap(history_index) >= 1
    /\ is_shuffled(Q)

\* C22: across next, previous, queue, queue_next, shuffle, unshuffle and
\* toggle_shuffle (no clear) the live edge never decreases, and it increases,
\* by exactly 1, only through a successful next() taken in the LiveEdge state.
C22_LiveEdgeMonotone ==
    [][last'.op # "clear"
       => /\ IsSome(current_item) <=> IsSome(current_item')
          /\ IsSome(current_item)
                => /\ Unwrap(current_item') >= live_edge
                   /\ Unwrap(current_item') # live_edge
                         => /\ Unwrap(current_item') = live_edge + 1
                            /\ last'.op = "next"
                            /\ last'.res = "Ok"
                            /\ LiveEdge]_vars

\* C22's case: the live edge has advanced twice and a previous() call that
\* succeeded has just left it where it was.
C22_Witness ==
    /\ last.op = "previous"
    /\ last.res = "Ok"
    /\ IsSome(current_item)
    /\ live_edge >= 2
    /\ history_index = Some(live_edge - 1)

\* C23: shuffle() called while playing with live_edge = n - 1 is a no-op:
\* the shuffle order (present or absent), live edge, history, history_index
\* and store are unchanged, so an unshuffled queue stays unshuffled.
C23_ShuffleOnLastIsNoOp ==
    [][(last'.op = "shuffle" /\ IsSome(current_item) /\ live_edge = n - 1)
       => /\ shuffle_order' = shuffle_order
          /\ current_item' = current_item
          /\ history' = history
          /\ history_index' = history_index
          /\ items' = items
          /\ Q' = Q]_vars

\* C23's case: shuffle() was called on the last of several items of an
\* unshuffled queue.
C23_Witness ==
    /\ last.op = "shuffle"
    /\ IsSome(current_item)
    /\ live_edge = n - 1
    /\ n >= 3
    /\ ~is_shuffled(Q)

\* C24: queue(item) on a shuffled queue, playing or not, extends the shuffle
\* order to cover the new raw index n: afterwards it has length n + 1, is a
\* bijection on 0..n+1 and maps every position up to the live edge as before.
C24_QueueExtendsShuffleOrder ==
    [][(last'.op = "queue" /\ is_shuffled(Q))
       => /\ IsSome(shuffle_order')
          /\ IsBijection(Unwrap(shuffle_order'), n + 1)
          /\ IsSome(current_item)
                => \A i \in 0..live_edge :
                      At(Unwrap(shuffle_order'), i) = At(Unwrap(shuffle_order), i)]_vars

\* C25: after any sequence of the public operations (from/default, play,
\* next, previous, queue, queue_next, shuffle, unshuffle, toggle_shuffle,
\* clear), whenever the live edge is Some(p): n = len() >= 1, p < n, a present
\* shuffle order has length n with every entry < n, every history entry is
\* < n and history_index (if Some) is < history.len(), so get_current_item()
\* and next() never fault.
C25_NoFaultWhilePlaying ==
    IsSome(current_item)
        => /\ n >= 1
           /\ live_edge < n
           /\ IsSome(shuffle_order)
                 => /\ Len(Unwrap(shuffle_order)) = n
                    /\ \A e \in Range(Unwrap(shuffle_order)) : e < n
           /\ \A e \in Range(history) : e < n
           /\ IsSome(history_index) => Unwrap(history_index) < Len(history)
           /\ get_current_item(Q).tag # "Panic"
           /\ \A o \in next_outcomes(Q) : o.res.tag # "Panic"

\* C26: while playing, the history agrees with the played prefix of the play
\* order: for every i < live_edge, history[i] is the shuffle order's entry at
\* i when there is a shuffle order and i when there is none, under either
\* implemented unshuffle strategy.
C26_HistoryIsPlayedPrefix ==
    IsSome(current_item)
        => /\ Len(history) >= live_edge
           /\ \A i \in 0..(live_edge - 1) :
                 At(history, i) = MapAt(shuffle_order, i)

\* C26's case: under KeepRawIndex, an unshuffle() call on a queue whose
\* history holds an item that was played out of raw order.
C26_Witness ==
    /\ IsSome(current_item)
    /\ unshuffle_strat = "KeepRawIndex"
    /\ last.op = "unshuffle"
    /\ live_edge >= 2
    /\ \E i \in 0..(live_edge - 1) : At(history, i) # i

\* C27: with the strategy PlayUnplayed no item is replayed or skipped: in
\* every playing state the raw indices get_items() reports (history, then the
\* remaining play order) contain every raw index in 0..n exactly once.
C27_NoReplayNoSkip ==
    (IsSome(current_item) /\ unshuffle_strat = "PlayUnplayed")
        => /\ get_items(Q).tag = "Ok"
           /\ IsBijection(get_items(Q).val, n)

\* C27's case: unshuffle() was called past the first position of a shuffled
\* queue whose live edge holds another raw index than its position.
C27_Witness ==
    /\ IsSome(current_item)
    /\ unshuffle_strat = "PlayUnplayed"
    /\ last.op = "unshuffle"
    /\ is_shuffled(Q)
    /\ live_edge >= 1
    /\ live_edge < n - 1
    /\ At(Unwrap(shuffle_order), live_edge) # live_edge

\* C28: a failing navigation call leaves the queue untouched: when next()
\* returns ReachedEnd or NotPlaying, or previous() returns ReachedBeginning
\* or NotPlaying, the store, live edge, history, history_index and shuffle
\* order are what they were and get_current_item() returns what it returned
\* before.
C28_FailedNavigationIsFree ==
    [][(last'.op \in {"next", "previous"} /\ last'.res # "Ok")
       => /\ last'.res \in (IF last'.op = "next"
                            THEN {"ReachedEnd", "NotPlaying"}
                            ELSE {"ReachedBeginning", "NotPlaying"})
          /\ items' = items
          /\ current_item' = current_item
          /\ history' = history
          /\ history_index' = history_index
          /\ shuffle_order' = shuffle_order
          /\ Q' = Q
          /\ get_current_item(Q') = get_current_item(Q)]_vars

\* C28's case: next() has failed at the end of a shuffled queue of three or
\* more items.
C28_Witness ==
    /\ last.op = "next"
    /\ last.res = "ReachedEnd"
    /\ is_shuffled(Q)
    /\ n >= 3
    /\ Len(history) = n - 1

\* C29: an unshuffle sticks until the next explicit shuffle: right after an
\* unshuffle() with PlayUnplayed on a playing queue, a next(), previous(),
\* queue(item) or queue_next(item) call leaves the positions after the live
\* edge in ascending raw-index order, and a newly queued item plays last.
C29_UnshuffleSticks ==
    [][(/\ last.op = "unshuffle"
        /\ IsSome(current_item)
        /\ unshuffle_strat = "PlayUnplayed"
        /\ last'.op \in {"next", "previous", "queue", "queue_next"})
       => /\ \A i \in (Unwrap(current_item') + 1)..(len(Q') - 1) :
             \A j \in (i + 1)..(len(Q') - 1) :
                MapAt(shuffle_order', i) < MapAt(shuffle_order', j)
          /\ last'.op = "queue" => MapAt(shuffle_order', n) = n]_vars

====
